---------------------------- MODULE Spec2Model ----------------------------
(***************************************************************************)
(* A state-machine model of the MUPOL MPC solver (src/mupol/mpc):          *)
(* MPCSolver.solve_problem with its fill pass, its repositioning (empty    *)
(* truck drive) and its final reveal, over the secret-shared trucks and    *)
(* orders that input_uploader.prepare_mpc_data sets up.                    *)
(*                                                                         *)
(* Secret-shared integers are modelled by the integers they hold; the      *)
(* set `revealed` records every mpc.output call (what, of which object,    *)
(* to which receivers).                                                    *)
(*                                                                         *)
(* Three specifications: Spec (and FairSpec) is solve_problem on a shared  *)
(* problem; VectorSpec is the functions of mpyc_vector_functions called on *)
(* their own; PrepareSpec is prepare_mpc_data and the construction of the  *)
(* solver up to the entry of the first round.                              *)
(***************************************************************************)
EXTENDS Integers, Sequences, FiniteSets, TLC

(***************************************************************************)
(* Bounds of the model.                                                    *)
(***************************************************************************)
NumTrucks == 2
NumOrders == 2
NumFreighters == 2

\* Rounds of the while loop that are counted; MaxRounds is above the
\* 2 * NumOrders rounds a run with fitting volumes needs.  Beyond it the
\* history counters and the empty_drives list no longer grow (the loop
\* itself goes on), which keeps a run that never ends finite-state.
MaxRounds == 2 * NumOrders + 1

(***************************************************************************)
(* Configuration handed to MPCSolver.__init__ and prepare_mpc_data.        *)
(***************************************************************************)
dummy_freighter_id == 0
dummy_node == -1
truck_capacity == 10

(***************************************************************************)
(* The problem instance (inputs).                                          *)
(***************************************************************************)
TruckIndexes == 0 .. (NumTrucks - 1)
OrderIndexes == 0 .. (NumOrders - 1)
\* map.positions of the map the runs use: a map of two nodes; the nodes
\* double as the indexes of the route matrix
Positions == {0, 1}
NumNodes == Cardinality(Positions)
\* order volumes: one that fits a truck and one larger than a whole truck
Volumes == {4, 11}
\* truck.capacity at upload: room for one order of volume 4 and no more,
\* or the configured capacity
InitialCapacities == {4, truck_capacity}
\* truck.freighter.id of the truck at a given index
FreighterOf(t) == 1 + ((t + 1) % NumFreighters)
\* map.compute_route_matrix(): cost of the route from node i to node j
\* (a line of nodes, dearer in one direction than in the other)
RouteMatrix ==
    [ i \in Positions |-> [ j \in Positions |->
        IF i <= j THEN j - i ELSE 2 * (i - j) ] ]

VARIABLES
    problem,               \* the plaintext Problem handed to prepare_mpc_data
    trucks,                \* self.trucks: index -> truck record
    orders,                \* self.orders: index -> order record
    empty_drives,          \* self.empty_drives
    num_processed_orders,  \* self.num_processed_orders
    num_added_orders,      \* local of solve_problem (the revealed count)
    route_matrix,          \* self.map.compute_route_matrix()
    pc,                    \* position of solve_problem
    truck_index,           \* position of the `for truck` loop of _fill_trucks
    order_index,           \* position of the inner `for order` loop
    reveal_index,          \* position of the final reveal loops
    revealed,              \* every mpc.output so far
    rounds,                \* history: rounds of the while loop entered
    stalled_rounds,        \* history: rounds whose revealed count was 0
    evaluated,             \* history: the (truck, order) index pairs that
                           \* _fill_truck_with_order got in this round
    pass_start_trucks,     \* history: self.trucks when this round began
    operations,            \* history: the operations solve_problem has
                           \* performed, in order
    accepted,              \* history: for each truck, the indexes of the
                           \* orders it has accepted in this round
    commitments,           \* history: how often a truck's destination was
                           \* given another value by _fill_truck_with_order
    relocations,           \* history: how often a truck's position was
                           \* assigned a destination or an order's origin
    frame                  \* the running call of a function of
                           \* mpyc_vector_functions made outside solve_problem

vars == << problem, trucks, orders, empty_drives, num_processed_orders,
           num_added_orders, route_matrix, pc, truck_index, order_index,
           reveal_index, revealed, rounds, stalled_rounds, evaluated,
           pass_start_trucks, operations, accepted, commitments,
           relocations, frame >>

(***************************************************************************)
(* The Secure-Value Adapter (MPyC) on the values the shares hold.          *)
(***************************************************************************)
mpc_eq(a, b) == IF a = b THEN 1 ELSE 0
mpc_ge(a, b) == IF a >= b THEN 1 ELSE 0
mpc_if_else(c, x, y) == c * (x - y) + y

\* the OR that MPyC has built in, a + b + (a AND b), not reduced modulo 2
real_or_native(a, b) == a + b + a * b

\* mpyc_vector_functions.real_or
real_or(a, b) == 1 - ((1 - a) * (1 - b))

(***************************************************************************)
(* input_uploader                                                          *)
(***************************************************************************)
\* upload_order followed by initialize_order
initialize_order(origin, destination, volume) ==
    [ origin |-> origin, destination |-> destination, volume |-> volume,
      processed |-> 0, process_this_round |-> 0,
      freighter_id |-> dummy_freighter_id ]

\* upload_truck followed by initialize_truck; dist_to_order is not set
\* before the first repositioning (-1 stands for the missing attribute)
initialize_truck(capacity, position, freighter) ==
    [ capacity |-> capacity, position |-> position,
      freighter_id |-> freighter, destination |-> dummy_node,
      dist_to_order |-> -1 ]

(***************************************************************************)
(* Assignment Engine                                                       *)
(***************************************************************************)
\* compatible without the capacity check of solver.py 92
compatible_ignoring_capacity(truck, order) ==
    mpc_eq(truck.position, order.origin)
      * real_or(mpc_eq(truck.destination, dummy_node),
                mpc_eq(truck.destination, order.destination))
      * (1 - order.processed)

\* compatible without the open-order check of solver.py 93
compatible_ignoring_processed(truck, order) ==
    mpc_eq(truck.position, order.origin)
      * real_or(mpc_eq(truck.destination, dummy_node),
                mpc_eq(truck.destination, order.destination))
      * mpc_ge(truck.capacity - order.volume, 0)

\* compatible without the destination check of solver.py 87-90
compatible_ignoring_destination(truck, order) ==
    mpc_eq(truck.position, order.origin)
      * mpc_ge(truck.capacity - order.volume, 0)
      * (1 - order.processed)

\* solver.py 85-100: the 0/1 flag of _fill_truck_with_order
compatible(truck, order) ==
    LET equal_positions == mpc_eq(truck.position, order.origin)
        destinations_compatible ==
            real_or(mpc_eq(truck.destination, dummy_node),
                    mpc_eq(truck.destination, order.destination))
        positive_capacity == mpc_ge(truck.capacity - order.volume, 0)
        order_is_open == 1 - order.processed
    IN  equal_positions * destinations_compatible * positive_capacity
          * order_is_open

\* _fill_truck_with_order with the branches of the destination select
\* swapped
fill_truck_with_order_swapped_select(truck, order) ==
    LET c == compatible(truck, order) IN
    [ truck |->
        [ truck EXCEPT
            !.destination = mpc_if_else(c, truck.destination, order.destination),
            !.capacity = truck.capacity - order.volume * c ],
      order |->
        [ order EXCEPT
            !.processed = real_or(c, order.processed),
            !.process_this_round = real_or(c, order.process_this_round),
            !.freighter_id = mpc_if_else(c, truck.freighter_id, order.freighter_id) ] ]

\* _fill_truck_with_order lowering the capacity whatever the flag
fill_truck_with_order_always_loading(truck, order) ==
    LET c == compatible(truck, order) IN
    [ truck |->
        [ truck EXCEPT
            !.destination = mpc_if_else(c, order.destination, truck.destination),
            !.capacity = truck.capacity - order.volume ],
      order |->
        [ order EXCEPT
            !.processed = real_or(c, order.processed),
            !.process_this_round = real_or(c, order.process_this_round),
            !.freighter_id = mpc_if_else(c, truck.freighter_id, order.freighter_id) ] ]

\* _fill_truck_with_order that assigns the compatible flag to processed
\* instead of or-ing it in
fill_truck_with_order_overwriting_processed(truck, order) ==
    LET c == compatible(truck, order) IN
    [ truck |->
        [ truck EXCEPT
            !.destination = mpc_if_else(c, order.destination, truck.destination),
            !.capacity = truck.capacity - order.volume * c ],
      order |->
        [ order EXCEPT
            !.processed = c,
            !.process_this_round = real_or(c, order.process_this_round),
            !.freighter_id = mpc_if_else(c, truck.freighter_id, order.freighter_id) ] ]

\* solver.py 102-112: the updates of _fill_truck_with_order, as the pair
\* of the updated truck and the updated order
fill_truck_with_order(truck, order) ==
    LET c == compatible(truck, order) IN
    [ truck |->
        [ truck EXCEPT
            !.destination = mpc_if_else(c, order.destination, truck.destination),
            !.capacity = truck.capacity - order.volume * c ],
      order |->
        [ order EXCEPT
            !.processed = real_or(c, order.processed),
            !.process_this_round = real_or(c, order.process_this_round),
            !.freighter_id = mpc_if_else(c, truck.freighter_id, order.freighter_id) ] ]

\* the end of a truck's pass without the reset of its capacity
finish_truck_keeping_capacity(truck) ==
    [ truck EXCEPT
        !.position = mpc_if_else(1 - mpc_eq(truck.destination, dummy_node),
                                 truck.destination, truck.position),
        !.destination = dummy_node ]

\* the end of a truck's pass without the reset of its destination
finish_truck_keeping_destination(truck) ==
    [ truck EXCEPT
        !.capacity = truck_capacity,
        !.position = mpc_if_else(1 - mpc_eq(truck.destination, dummy_node),
                                 truck.destination, truck.position) ]

\* the end of a truck's pass without the advance of its position
finish_truck_without_advance(truck) ==
    [ truck EXCEPT
        !.capacity = truck_capacity,
        !.destination = dummy_node ]

\* the end of a truck's pass that takes the destination as the position
\* without asking whether it is the dummy node
finish_truck_to_any_destination(truck) ==
    [ truck EXCEPT
        !.capacity = truck_capacity,
        !.position = truck.destination,
        !.destination = dummy_node ]

\* solver.py 120-133: what _fill_trucks does to a truck after its orders
finish_truck(truck) ==
    [ truck EXCEPT
        !.capacity = truck_capacity,
        !.position = mpc_if_else(1 - mpc_eq(truck.destination, dummy_node),
                                 truck.destination, truck.position),
        !.destination = dummy_node ]

(***************************************************************************)
(* Oblivious primitives (mpyc_vector_functions); vectors are functions     *)
(* on 0 .. length-1.                                                       *)
(***************************************************************************)
RECURSIVE SumTo(_, _)
\* f[0] + ... + f[n-1]
SumTo(f, n) == IF n = 0 THEN 0 ELSE SumTo(f, n - 1) + f[n - 1]

\* mpc.in_prod
mpc_in_prod(x, y, n) == SumTo([i \in 0 .. (n - 1) |-> x[i] * y[i]], n)

compute_indicator_vector(length, index) ==
    [ j \in 0 .. (length - 1) |-> mpc_if_else(mpc_eq(j, index), 1, 0) ]

RECURSIVE already_set(_, _)
\* the flag already_set of find_first_non_zero before position j
already_set(secret_list, j) ==
    IF j = 0 THEN 0
    ELSE real_or(already_set(secret_list, j - 1), secret_list[j - 1])

\* the mask of the last nonzero position instead of the first
find_last_non_zero(secret_list, n) ==
    [ j \in 0 .. (n - 1) |->
        IF secret_list[j] # 0
           /\ \A k \in (j + 1) .. (n - 1) : secret_list[k] = 0
        THEN 1 ELSE 0 ]

find_first_non_zero(secret_list, n) ==
    [ j \in 0 .. (n - 1) |-> secret_list[j] * (1 - already_set(secret_list, j)) ]

(***************************************************************************)
(* Repositioning Engine                                                    *)
(***************************************************************************)
\* the origin of the first order of the list, processed or not (the mask
\* taken over a list of ones instead of 1 - processed)
locate_first_order_origin(os) ==
    LET unprocessed_indexes == [o \in OrderIndexes |-> 1]
        first_unprocessed_index ==
            find_first_non_zero(unprocessed_indexes, NumOrders)
        first_unprocessed_origin ==
            mpc_in_prod([o \in OrderIndexes |-> os[o].origin],
                        first_unprocessed_index, NumOrders)
    IN  << first_unprocessed_origin,
           compute_indicator_vector(NumNodes, first_unprocessed_origin) >>

\* solver.py 149-157: <<first_unprocessed_origin, first_unprocessed_origin_vec>>
locate_first_unprocessed_origin(os) ==
    LET unprocessed_indexes == [o \in OrderIndexes |-> 1 - os[o].processed]
        first_unprocessed_index ==
            find_first_non_zero(unprocessed_indexes, NumOrders)
        first_unprocessed_origin ==
            mpc_in_prod([o \in OrderIndexes |-> os[o].origin],
                        first_unprocessed_index, NumOrders)
    IN  << first_unprocessed_origin,
           compute_indicator_vector(NumNodes, first_unprocessed_origin) >>

\* the look-up with row and column exchanged (matrix_prod without tr=True
\* on the transposed operand)
find_truck_dist_to_order_transposed(truck, node_indicator_vector, matrix) ==
    LET truck_position_vec == compute_indicator_vector(NumNodes, truck.position)
        row == [ j \in Positions |->
                   mpc_in_prod([ i \in Positions |-> matrix[i][j] ],
                               node_indicator_vector, NumNodes) ]
    IN  mpc_in_prod(truck_position_vec, row, NumNodes)

\* solver.py 199-208: the value assigned to truck.dist_to_order
find_truck_dist_to_order(truck, node_indicator_vector, matrix) ==
    LET truck_position_vec == compute_indicator_vector(NumNodes, truck.position)
        \* mpc.matrix_prod(route_matrix, [node_indicator_vector], tr=True)
        column == [ i \in Positions |->
                      mpc_in_prod(matrix[i], node_indicator_vector, NumNodes) ]
    IN  mpc_in_prod(truck_position_vec, column, NumNodes)

\* solver.py 174-183
find_distances_to_order(ts, node_indicator_vector, matrix) ==
    [ t \in TruckIndexes |->
        [ ts[t] EXCEPT !.dist_to_order =
            find_truck_dist_to_order(ts[t], node_indicator_vector, matrix) ] ]

\* mpc.argmin(...)[0]: the index of the first occurrence of the minimum
mpc_argmin(x) ==
    CHOOSE i \in DOMAIN x :
        /\ \A j \in DOMAIN x : x[i] <= x[j]
        /\ \A j \in DOMAIN x : x[j] = x[i] => i <= j

RECURSIVE find_truck_position_upto(_, _, _)
find_truck_position_upto(ts, truck_idx, n) ==
    IF n = 0 THEN dummy_node
    ELSE mpc_if_else(mpc_eq(n - 1, truck_idx), ts[n - 1].position,
                     find_truck_position_upto(ts, truck_idx, n - 1))

\* solver.py 217-224
find_truck_position(ts, truck_idx) ==
    find_truck_position_upto(ts, truck_idx, NumTrucks)

RECURSIVE find_freighter_id_upto(_, _, _)
find_freighter_id_upto(ts, truck_idx, n) ==
    IF n = 0 THEN dummy_freighter_id
    ELSE mpc_if_else(mpc_eq(n - 1, truck_idx), ts[n - 1].freighter_id,
                     find_freighter_id_upto(ts, truck_idx, n - 1))

\* the scan that leaves the last truck out
find_freighter_id_short_scan(ts, truck_idx) ==
    find_freighter_id_upto(ts, truck_idx, NumTrucks - 1)

\* solver.py 249-256
find_freighter_id(ts, truck_idx) ==
    find_freighter_id_upto(ts, truck_idx, NumTrucks)

\* _move_truck with the branches of the selection exchanged: every truck
\* but the selected one is moved
move_truck_all_others(ts, truck_idx, destination) ==
    [ t \in TruckIndexes |->
        [ ts[t] EXCEPT !.position =
            mpc_if_else(mpc_eq(t, truck_idx), ts[t].position, destination) ] ]

\* _move_truck that assigns to no truck
move_truck_nowhere(ts, truck_idx, destination) == ts

\* solver.py 235-240
move_truck(ts, truck_idx, destination) ==
    [ t \in TruckIndexes |->
        [ ts[t] EXCEPT !.position =
            mpc_if_else(mpc_eq(t, truck_idx), destination, ts[t].position) ] ]

\* class EmptyDrive
EmptyDrive(freighter_id, closest_position, first_unprocessed_origin) ==
    [ freighter_id |-> freighter_id, closest_position |-> closest_position,
      first_unprocessed_origin |-> first_unprocessed_origin ]

\* the closest truck taken from the distances the trucks had before they
\* were measured against the located origin
create_empty_truck_drive_stale_distances(ts, os, matrix) ==
    LET located == locate_first_unprocessed_origin(os)
        first_unprocessed_origin == located[1]
        measured == find_distances_to_order(ts, located[2], matrix)
        closest_truck_index ==
            mpc_argmin([t \in TruckIndexes |-> ts[t].dist_to_order])
        closest_position == find_truck_position(measured, closest_truck_index)
        freighter_id == find_freighter_id(measured, closest_truck_index)
    IN  [ trucks |-> move_truck(measured, closest_truck_index,
                                first_unprocessed_origin),
          closest_truck_index |-> closest_truck_index,
          empty_drive |-> EmptyDrive(freighter_id, closest_position,
                                     first_unprocessed_origin) ]


\* solver.py 264-301: _create_empty_truck_drive as the pair of the trucks
\* after it and the EmptyDrive it appends
create_empty_truck_drive(ts, os, matrix) ==
    LET located == locate_first_unprocessed_origin(os)
        first_unprocessed_origin == located[1]
        measured == find_distances_to_order(ts, located[2], matrix)
        closest_truck_index ==
            mpc_argmin([t \in TruckIndexes |-> measured[t].dist_to_order])
        closest_position == find_truck_position(measured, closest_truck_index)
        freighter_id == find_freighter_id(measured, closest_truck_index)
    IN  [ trucks |-> move_truck(measured, closest_truck_index,
                                first_unprocessed_origin),
          closest_truck_index |-> closest_truck_index,
          empty_drive |-> EmptyDrive(freighter_id, closest_position,
                                     first_unprocessed_origin) ]

\* no plaintext Problem is left to share
NoProblem == [ trucks |-> << >>, orders |-> << >> ]

\* no function of mpyc_vector_functions is running on its own
NoCall ==
    [ function |-> "none", args |-> << >>, j |-> 0, list |-> << >>,
      already_set |-> 0, visited |-> {}, returned |-> FALSE ]

Init ==
    /\ problem = NoProblem
    /\ trucks \in { [t \in TruckIndexes |->
                        initialize_truck(c[t], p[t], FreighterOf(t))] :
                    c \in [TruckIndexes -> InitialCapacities],
                    p \in [TruckIndexes -> Positions] }
    /\ orders \in { [o \in OrderIndexes |->
                        initialize_order(og[o], d[o], v[o])] :
                    og \in [OrderIndexes -> Positions],
                    d \in [OrderIndexes -> Positions],
                    v \in [OrderIndexes -> Volumes] }
    /\ route_matrix = RouteMatrix
    /\ empty_drives = << >>
    /\ num_processed_orders = 0
    /\ num_added_orders = 0
    /\ pc = "while"
    /\ truck_index = 0
    /\ order_index = 0
    /\ reveal_index = 0
    /\ revealed = {}
    /\ rounds = 0
    /\ stalled_rounds = 0
    /\ evaluated = << >>
    /\ pass_start_trucks = trucks
    /\ operations = << >>
    /\ accepted = [t \in TruckIndexes |-> << >>]
    /\ commitments = 0
    /\ relocations = 0
    /\ frame = NoCall


(***************************************************************************)
(* Round Controller: MPCSolver.solve_problem, one action per step.         *)
(***************************************************************************)
\* mpc.output(value, receivers): the record kept of one reveal
Output(item, index, receivers) ==
    [ item |-> item, index |-> index, receivers |-> receivers ]

\* a history counter stops growing at MaxRounds
Counted(n) == IF n < MaxRounds THEN n + 1 ELSE n

\* one operation of solve_problem: its name and the index it is made for
\* (for the reveal of the count: the count revealed)
Operation(op, value) == [ op |-> op, value |-> value ]

\* the history of operations with one more entry, made in round r (the
\* operations of a round beyond the counted ones are not kept, see
\* MaxRounds)
Logged(r, entry) ==
    IF r < MaxRounds THEN Append(operations, entry) ELSE operations

\* the loop condition with <= for <: a round more when all is processed
EnterRound_once_more ==
    /\ pc = "while"
    /\ num_processed_orders <= NumOrders
    /\ pc' = "fill"
    /\ rounds' = Counted(rounds)
    /\ evaluated' = << >>
    /\ pass_start_trucks' = trucks
    /\ operations' = Logged(rounds + 1, Operation("_fill_trucks", rounds + 1))
    /\ accepted' = [t \in TruckIndexes |-> << >>]
    /\ UNCHANGED << problem, commitments, relocations, frame, trucks, orders,
                    empty_drives, num_processed_orders, num_added_orders,
                    route_matrix, truck_index, order_index, reveal_index,
                    revealed, stalled_rounds >>

\* solver.py 317, condition true: a round begins with _fill_trucks
EnterRound ==
    /\ pc = "while"
    /\ num_processed_orders < NumOrders
    /\ pc' = "fill"
    /\ rounds' = Counted(rounds)
    /\ evaluated' = << >>
    /\ pass_start_trucks' = trucks
    /\ operations' = Logged(rounds + 1, Operation("_fill_trucks", rounds + 1))
    /\ accepted' = [t \in TruckIndexes |-> << >>]
    /\ UNCHANGED << problem, commitments, relocations, frame, trucks, orders,
                    empty_drives, num_processed_orders, num_added_orders,
                    route_matrix, truck_index, order_index, reveal_index,
                    revealed, stalled_rounds >>

\* solver.py 119: one call of _fill_truck_with_order in _fill_trucks
FillTruckWithOrder ==
    /\ pc = "fill"
    /\ truck_index < NumTrucks
    /\ order_index < NumOrders
    /\ LET filled == fill_truck_with_order(trucks[truck_index],
                                           orders[order_index])
       IN  /\ trucks' = [trucks EXCEPT ![truck_index] = filled.truck]
           /\ orders' = [orders EXCEPT ![order_index] = filled.order]
    /\ order_index' = order_index + 1
    /\ evaluated' = Append(evaluated, << truck_index, order_index >>)
    /\ accepted' =
          IF orders'[order_index].process_this_round
               > orders[order_index].process_this_round
          THEN [accepted EXCEPT ![truck_index] = Append(@, order_index)]
          ELSE accepted
    /\ commitments' =
          IF trucks'[truck_index].destination # trucks[truck_index].destination
             /\ rounds < MaxRounds
          THEN commitments + 1 ELSE commitments
    /\ UNCHANGED << problem, relocations, frame, operations, empty_drives,
                    num_processed_orders, num_added_orders, route_matrix, pc,
                    truck_index, reveal_index, revealed, rounds,
                    stalled_rounds, pass_start_trucks >>

\* the `for order` loop of a truck left at the first match
FinishTruck_after_match ==
    /\ pc = "fill"
    /\ truck_index < NumTrucks
    /\ order_index = NumOrders \/ trucks[truck_index].destination # dummy_node
    /\ trucks' = [trucks EXCEPT ![truck_index] = finish_truck(trucks[truck_index])]
    /\ truck_index' = truck_index + 1
    /\ order_index' = 0
    /\ relocations' =
          IF trucks[truck_index].destination # dummy_node /\ rounds < MaxRounds
          THEN relocations + 1 ELSE relocations
    /\ UNCHANGED << problem, accepted, commitments, frame, operations,
                    orders, empty_drives, num_processed_orders,
                    num_added_orders, route_matrix, pc, reveal_index,
                    revealed, rounds, stalled_rounds, evaluated,
                    pass_start_trucks >>

\* solver.py 120-133: the end of the `for order` loop of one truck
FinishTruck ==
    /\ pc = "fill"
    /\ truck_index < NumTrucks
    /\ order_index = NumOrders
    /\ trucks' = [trucks EXCEPT ![truck_index] = finish_truck(trucks[truck_index])]
    /\ truck_index' = truck_index + 1
    /\ order_index' = 0
    /\ relocations' =
          IF trucks[truck_index].destination # dummy_node /\ rounds < MaxRounds
          THEN relocations + 1 ELSE relocations
    /\ UNCHANGED << problem, accepted, commitments, frame, operations,
                    orders, empty_drives, num_processed_orders,
                    num_added_orders, route_matrix, pc, reveal_index,
                    revealed, rounds, stalled_rounds, evaluated,
                    pass_start_trucks >>

\* the count revealed inside the `for truck` loop, after the first truck
RevealCount_inside_truck_loop ==
    /\ pc = "fill"
    /\ truck_index >= 1
    /\ order_index = 0
    /\ num_added_orders' =
          SumTo([o \in OrderIndexes |-> orders[o].process_this_round], NumOrders)
    /\ revealed' = revealed \cup { Output("num_added_orders", rounds, "all") }
    /\ stalled_rounds' =
          IF num_added_orders' = 0 /\ rounds < MaxRounds
          THEN stalled_rounds + 1 ELSE stalled_rounds
    /\ pc' = "check"
    /\ truck_index' = 0
    /\ operations' = Logged(rounds, Operation("output num_added_orders", num_added_orders'))
    /\ UNCHANGED << problem, accepted, commitments, relocations, frame,
                    trucks, orders, empty_drives, num_processed_orders,
                    route_matrix, order_index, reveal_index, rounds,
                    evaluated, pass_start_trucks >>

\* solver.py 324-325: _fill_trucks has returned; the count is revealed
\* (stalled rounds beyond the counted ones are not counted, see MaxRounds)
RevealCount ==
    /\ pc = "fill"
    /\ truck_index = NumTrucks
    /\ num_added_orders' =
          SumTo([o \in OrderIndexes |-> orders[o].process_this_round], NumOrders)
    /\ revealed' = revealed \cup { Output("num_added_orders", rounds, "all") }
    /\ stalled_rounds' =
          IF num_added_orders' = 0 /\ rounds < MaxRounds
          THEN stalled_rounds + 1 ELSE stalled_rounds
    /\ pc' = "check"
    /\ truck_index' = 0
    /\ operations' = Logged(rounds, Operation("output num_added_orders", num_added_orders'))
    /\ UNCHANGED << problem, accepted, commitments, relocations, frame,
                    trucks, orders, empty_drives, num_processed_orders,
                    route_matrix, order_index, reveal_index, rounds,
                    evaluated, pass_start_trucks >>

\* the repositioning run when the first order is open, whatever the count
CreateEmptyTruckDrive_on_secret ==
    /\ pc = "check"
    /\ orders[0].processed = 0
    /\ LET drive == create_empty_truck_drive(trucks, orders, route_matrix)
       IN  /\ trucks' = drive.trucks
           /\ empty_drives' =
                 IF rounds < MaxRounds
                 THEN Append(empty_drives, drive.empty_drive)
                 ELSE empty_drives
    /\ pc' = "reset"
    /\ operations' = Logged(rounds, Operation("_create_empty_truck_drive", 0))
    /\ relocations' =
          IF rounds < MaxRounds THEN relocations + 1 ELSE relocations
    /\ UNCHANGED << problem, accepted, commitments, frame, orders,
                    num_processed_orders, num_added_orders, route_matrix,
                    truck_index, order_index, reveal_index, revealed, rounds,
                    stalled_rounds, evaluated, pass_start_trucks >>

\* solver.py 328-330, count 0: _create_empty_truck_drive (the EmptyDrive
\* of a round beyond the counted ones is not kept, see MaxRounds)
CreateEmptyTruckDrive ==
    /\ pc = "check"
    /\ num_added_orders = 0
    /\ LET drive == create_empty_truck_drive(trucks, orders, route_matrix)
       IN  /\ trucks' = drive.trucks
           /\ empty_drives' =
                 IF rounds < MaxRounds
                 THEN Append(empty_drives, drive.empty_drive)
                 ELSE empty_drives
    /\ pc' = "reset"
    /\ operations' = Logged(rounds, Operation("_create_empty_truck_drive", 0))
    /\ relocations' =
          IF rounds < MaxRounds THEN relocations + 1 ELSE relocations
    /\ UNCHANGED << problem, accepted, commitments, frame, orders,
                    num_processed_orders, num_added_orders, route_matrix,
                    truck_index, order_index, reveal_index, revealed, rounds,
                    stalled_rounds, evaluated, pass_start_trucks >>

\* the repositioning skipped whatever the count
SkipEmptyTruckDrive_always ==
    /\ pc = "check"
    /\ pc' = "reset"
    /\ UNCHANGED << problem, accepted, commitments, relocations, frame,
                    operations, trucks, orders, empty_drives,
                    num_processed_orders, num_added_orders, route_matrix,
                    truck_index, order_index, reveal_index, revealed, rounds,
                    stalled_rounds, evaluated, pass_start_trucks >>

\* solver.py 328, count not 0: no repositioning
SkipEmptyTruckDrive ==
    /\ pc = "check"
    /\ num_added_orders # 0
    /\ pc' = "reset"
    /\ UNCHANGED << problem, accepted, commitments, relocations, frame,
                    operations, trucks, orders, empty_drives,
                    num_processed_orders, num_added_orders, route_matrix,
                    truck_index, order_index, reveal_index, revealed, rounds,
                    stalled_rounds, evaluated, pass_start_trucks >>

\* the end of a round that leaves the process_this_round flags standing
ResetRound_keeping_flags ==
    /\ pc = "reset"
    /\ orders' = orders
    /\ num_processed_orders' = num_processed_orders + num_added_orders
    /\ pc' = "while"
    /\ UNCHANGED << problem, accepted, commitments, relocations, frame,
                    operations, trucks, empty_drives, num_added_orders,
                    route_matrix, truck_index, order_index, reveal_index,
                    revealed, rounds, stalled_rounds, evaluated,
                    pass_start_trucks >>

\* solver.py 333-336: the end of a round
ResetRound ==
    /\ pc = "reset"
    /\ orders' = [o \in OrderIndexes |->
                    [orders[o] EXCEPT !.process_this_round = 0]]
    /\ num_processed_orders' = num_processed_orders + num_added_orders
    /\ pc' = "while"
    /\ UNCHANGED << problem, accepted, commitments, relocations, frame,
                    operations, trucks, empty_drives, num_added_orders,
                    route_matrix, truck_index, order_index, reveal_index,
                    revealed, rounds, stalled_rounds, evaluated,
                    pass_start_trucks >>

\* the loop left one order early (an off-by-one in the loop condition)
ExitLoop_one_order_early ==
    /\ pc = "while"
    /\ ~ (num_processed_orders + 1 < NumOrders)
    /\ pc' = "reveal_orders"
    /\ reveal_index' = 0
    /\ UNCHANGED << problem, accepted, commitments, relocations, frame,
                    operations, trucks, orders, empty_drives,
                    num_processed_orders, num_added_orders, route_matrix,
                    truck_index, order_index, revealed, rounds,
                    stalled_rounds, evaluated, pass_start_trucks >>

\* solver.py 317, condition false: the loop ends
ExitLoop ==
    /\ pc = "while"
    /\ ~ (num_processed_orders < NumOrders)
    /\ pc' = "reveal_orders"
    /\ reveal_index' = 0
    /\ UNCHANGED << problem, accepted, commitments, relocations, frame,
                    operations, trucks, orders, empty_drives,
                    num_processed_orders, num_added_orders, route_matrix,
                    truck_index, order_index, revealed, rounds,
                    stalled_rounds, evaluated, pass_start_trucks >>

\* solver.py 340-349: the mpc.output calls for one order
order_outputs(o) ==
    { Output("order.freighter_id", o, "all"),
      Output("order.origin", o, "party0"),
      Output("order.destination", o, "party0"),
      Output("order.volume", o, "party0"),
      Output("order.origin", o, "all"),
      Output("order.destination", o, "all"),
      Output("order.volume", o, "all") }

\* solver.py 338-349: one iteration of the reveal loop over the orders
RevealOrder ==
    /\ pc = "reveal_orders"
    /\ reveal_index < NumOrders
    /\ revealed' = revealed \cup order_outputs(reveal_index)
    /\ reveal_index' = reveal_index + 1
    /\ operations' = Logged(rounds, Operation("output order", reveal_index))
    /\ UNCHANGED << problem, accepted, commitments, relocations, frame,
                    trucks, orders, empty_drives, num_processed_orders,
                    num_added_orders, route_matrix, pc, truck_index,
                    order_index, rounds, stalled_rounds, evaluated,
                    pass_start_trucks >>

\* solver.py 351: the reveal loop over the empty drives begins
StartRevealEmptyDrives ==
    /\ pc = "reveal_orders"
    /\ reveal_index = NumOrders
    /\ pc' = "reveal_empty_drives"
    /\ reveal_index' = 0
    /\ UNCHANGED << problem, accepted, commitments, relocations, frame,
                    operations, trucks, orders, empty_drives,
                    num_processed_orders, num_added_orders, route_matrix,
                    truck_index, order_index, revealed, rounds,
                    stalled_rounds, evaluated, pass_start_trucks >>

\* solver.py 352-361: the mpc.output calls for one empty drive
empty_drive_outputs(e) ==
    { Output("empty_drive.freighter_id", e, "all"),
      Output("empty_drive.closest_position", e, "party0"),
      Output("empty_drive.first_unprocessed_origin", e, "party0"),
      Output("empty_drive.closest_position", e, "all"),
      Output("empty_drive.first_unprocessed_origin", e, "all") }

\* solver.py 351-361: one iteration of the reveal loop over the empty drives
RevealEmptyDrive ==
    /\ pc = "reveal_empty_drives"
    /\ reveal_index < Len(empty_drives)
    /\ revealed' = revealed \cup empty_drive_outputs(reveal_index)
    /\ reveal_index' = reveal_index + 1
    /\ operations' = Logged(rounds, Operation("output empty_drive", reveal_index))
    /\ UNCHANGED << problem, accepted, commitments, relocations, frame,
                    trucks, orders, empty_drives, num_processed_orders,
                    num_added_orders, route_matrix, pc, truck_index,
                    order_index, rounds, stalled_rounds, evaluated,
                    pass_start_trucks >>

\* solver.py 362-365: solve_problem returns
Finish ==
    /\ pc = "reveal_empty_drives"
    /\ reveal_index = Len(empty_drives)
    /\ pc' = "done"
    /\ reveal_index' = 0
    /\ UNCHANGED << problem, accepted, commitments, relocations, frame,
                    operations, trucks, orders, empty_drives,
                    num_processed_orders, num_added_orders, route_matrix,
                    truck_index, order_index, revealed, rounds,
                    stalled_rounds, evaluated, pass_start_trucks >>

Next ==
    \/ EnterRound
    \/ FillTruckWithOrder
    \/ FinishTruck
    \/ RevealCount
    \/ CreateEmptyTruckDrive
    \/ SkipEmptyTruckDrive
    \/ ResetRound
    \/ ExitLoop
    \/ RevealOrder
    \/ StartRevealEmptyDrives
    \/ RevealEmptyDrive
    \/ Finish

Spec == Init /\ [][Next]_vars

\* solve_problem runs on a single thread of control and every step it can
\* take is eventually taken
FairSpec == Init /\ [][Next]_vars /\ WF_vars(Next)


(***************************************************************************)
(* The functions of mpyc_vector_functions called on their own, as          *)
(* tests/test_mpyc_functions.py calls them, their loops one step at a      *)
(* time.  frame.args holds the arguments, frame.list the list the call     *)
(* builds (1-based here, position j of the code is entry j + 1),           *)
(* frame.visited the positions the loop has been at.                       *)
(***************************************************************************)
\* longest vector a call is made with
MaxLength == 4
\* the values of a 0/1 secret
Bits == {0, 1}

\* n entries holding 0: [mpc.input(sec_type(0), senders=0) for _ in range(n)]
Zeros(n) == [ i \in 1 .. n |-> 0 ]

\* a list of the code as the vector on 0 .. length-1 the operators above take
AsVector(s) == [ i \in 0 .. (Len(s) - 1) |-> s[i + 1] ]

\* the frame of a call on entry
Call(function, args, list) ==
    [ function |-> function, args |-> args, j |-> 0, list |-> list,
      already_set |-> 0, visited |-> {}, returned |-> FALSE ]

solver_vars == << problem, trucks, orders, empty_drives, num_processed_orders,
                  num_added_orders, route_matrix, pc, truck_index,
                  order_index, reveal_index, revealed, rounds,
                  stalled_rounds, evaluated, pass_start_trucks,
                  operations, accepted, commitments, relocations >>

\* no MPCSolver has been constructed
NoSolver ==
    /\ problem = NoProblem
    /\ trucks = << >>
    /\ orders = << >>
    /\ empty_drives = << >>
    /\ num_processed_orders = 0
    /\ num_added_orders = 0
    /\ route_matrix = << >>
    /\ pc = "none"
    /\ truck_index = 0
    /\ order_index = 0
    /\ reveal_index = 0
    /\ revealed = {}
    /\ rounds = 0
    /\ stalled_rounds = 0
    /\ evaluated = << >>
    /\ pass_start_trucks = << >>
    /\ operations = << >>
    /\ accepted = << >>
    /\ commitments = 0
    /\ relocations = 0

\* one call: real_or on two bits, compute_indicator_vector on a length and
\* an index (in range, or just below or above the range), or
\* find_first_non_zero on a non-empty 0/1 list
VectorInit ==
    /\ NoSolver
    /\ frame \in
         { Call("real_or", << a, b >>, << >>) : a \in Bits, b \in Bits }
         \cup UNION { { Call("compute_indicator_vector", << n, i >>, Zeros(n)) :
                          i \in -1 .. n } : n \in 1 .. MaxLength }
         \cup UNION { { Call("find_first_non_zero", v, Zeros(n)) :
                          v \in [1 .. n -> Bits] } : n \in 1 .. MaxLength }

\* mpyc_vector_functions.py 25
RealOr ==
    /\ frame.function = "real_or"
    /\ ~ frame.returned
    /\ frame' = [ frame EXCEPT
                    !.list = << real_or(frame.args[1], frame.args[2]) >>,
                    !.returned = TRUE ]
    /\ UNCHANGED solver_vars

\* the loop body comparing j + 1, not j, with the index
IndicatorVectorStep_from_one ==
    /\ frame.function = "compute_indicator_vector"
    /\ ~ frame.returned
    /\ frame.j < frame.args[1]
    /\ frame' = [ frame EXCEPT
                    !.list[frame.j + 1] =
                        mpc_if_else(mpc_eq(frame.j + 1, frame.args[2]), 1,
                                    frame.list[frame.j + 1]),
                    !.visited = frame.visited \cup { frame.j },
                    !.j = frame.j + 1 ]
    /\ UNCHANGED solver_vars

\* mpyc_vector_functions.py 47-48: one iteration of `for j in range(length)`
IndicatorVectorStep ==
    /\ frame.function = "compute_indicator_vector"
    /\ ~ frame.returned
    /\ frame.j < frame.args[1]
    /\ frame' = [ frame EXCEPT
                    !.list[frame.j + 1] =
                        mpc_if_else(mpc_eq(frame.j, frame.args[2]), 1,
                                    frame.list[frame.j + 1]),
                    !.visited = frame.visited \cup { frame.j },
                    !.j = frame.j + 1 ]
    /\ UNCHANGED solver_vars

\* mpyc_vector_functions.py 49: the loop is over
IndicatorVectorReturn ==
    /\ frame.function = "compute_indicator_vector"
    /\ ~ frame.returned
    /\ frame.j = frame.args[1]
    /\ frame' = [ frame EXCEPT !.returned = TRUE ]
    /\ UNCHANGED solver_vars

\* the loop body without the factor (1 - already_set)
FirstNonZeroStep_ignoring_already_set ==
    /\ frame.function = "find_first_non_zero"
    /\ ~ frame.returned
    /\ frame.j < Len(frame.args)
    /\ frame' = [ frame EXCEPT
                    !.list[frame.j + 1] = frame.args[frame.j + 1],
                    !.already_set =
                        real_or(frame.already_set, frame.args[frame.j + 1]),
                    !.visited = frame.visited \cup { frame.j },
                    !.j = frame.j + 1 ]
    /\ UNCHANGED solver_vars

\* mpyc_vector_functions.py 66-68: one iteration of
\* `for j in range(len(secret_list))`
FirstNonZeroStep ==
    /\ frame.function = "find_first_non_zero"
    /\ ~ frame.returned
    /\ frame.j < Len(frame.args)
    /\ frame' = [ frame EXCEPT
                    !.list[frame.j + 1] =
                        frame.args[frame.j + 1] * (1 - frame.already_set),
                    !.already_set =
                        real_or(frame.already_set, frame.args[frame.j + 1]),
                    !.visited = frame.visited \cup { frame.j },
                    !.j = frame.j + 1 ]
    /\ UNCHANGED solver_vars

\* mpyc_vector_functions.py 69: the loop is over
FirstNonZeroReturn ==
    /\ frame.function = "find_first_non_zero"
    /\ ~ frame.returned
    /\ frame.j = Len(frame.args)
    /\ frame' = [ frame EXCEPT !.returned = TRUE ]
    /\ UNCHANGED solver_vars

VectorNext ==
    \/ RealOr
    \/ IndicatorVectorStep
    \/ IndicatorVectorReturn
    \/ FirstNonZeroStep
    \/ FirstNonZeroReturn

VectorSpec == VectorInit /\ [][VectorNext]_vars


(***************************************************************************)
(* input_uploader.prepare_mpc_data and the construction of the solver, up  *)
(* to the entry of the first round, for a plaintext Problem whose ids and  *)
(* values need not suit the configuration.                                 *)
(***************************************************************************)
\* bit_length of mpc.SecInt(bit_length): the secret integers are those
\* from -2^(bit_length - 1) to 2^(bit_length - 1) - 1
bit_length == 5
Fits(value) ==
    /\ - (2 ^ (bit_length - 1)) <= value
    /\ value < 2 ^ (bit_length - 1)

\* the ids of the map's nodes start at 0, or at the configured dummy node
NodeBases == {0, dummy_node}
\* the ids of the freighters start at 1, or at the configured dummy id
FreighterBases == {1, dummy_freighter_id}
\* order volumes: those of Volumes and the least one that does not fit
PlainVolumes == Volumes \cup { 2 ^ (bit_length - 1) }

\* a plaintext Problem: trucks of full capacity at nodes p, orders from
\* nodes og with volumes v, all to the last node
PlainProblem(node_base, freighter_base, p, og, v) ==
    [ trucks |-> [ t \in TruckIndexes |->
                     [ capacity |-> truck_capacity,
                       position |-> node_base + p[t],
                       freighter_id |-> freighter_base + FreighterOf(t) - 1 ] ],
      orders |-> [ o \in OrderIndexes |->
                     [ origin |-> node_base + og[o],
                       destination |-> node_base + NumNodes - 1,
                       volume |-> v[o] ] ] ]

PrepareInit ==
    /\ problem \in { PlainProblem(node_base, freighter_base, p, og, v) :
                       node_base \in NodeBases,
                       freighter_base \in FreighterBases,
                       p \in [TruckIndexes -> Positions],
                       og \in [OrderIndexes -> Positions],
                       v \in [OrderIndexes -> PlainVolumes] }
    /\ trucks = << >>
    /\ orders = << >>
    /\ empty_drives = << >>
    /\ num_processed_orders = 0
    /\ num_added_orders = 0
    /\ route_matrix = << >>
    /\ pc = "prepare_mpc_data"
    /\ truck_index = 0
    /\ order_index = 0
    /\ reveal_index = 0
    /\ revealed = {}
    /\ rounds = 0
    /\ stalled_rounds = 0
    /\ evaluated = << >>
    /\ pass_start_trucks = << >>
    /\ operations = << >>
    /\ accepted = [t \in TruckIndexes |-> << >>]
    /\ commitments = 0
    /\ relocations = 0
    /\ frame = NoCall

\* input_uploader.py 66-68: one order is shared
UploadOrder ==
    /\ pc = "prepare_mpc_data"
    /\ order_index < NumOrders
    /\ LET order == problem.orders[order_index]
       IN  orders' = [ o \in 0 .. order_index |->
                         IF o = order_index
                         THEN initialize_order(order.origin, order.destination,
                                               order.volume)
                         ELSE orders[o] ]
    /\ order_index' = order_index + 1
    /\ UNCHANGED << problem, accepted, commitments, relocations, frame,
                    operations, trucks, empty_drives, num_processed_orders,
                    num_added_orders, route_matrix, pc, truck_index,
                    reveal_index, revealed, rounds, stalled_rounds,
                    evaluated, pass_start_trucks >>

\* input_uploader.py 69-71: one truck is shared
UploadTruck ==
    /\ pc = "prepare_mpc_data"
    /\ order_index = NumOrders
    /\ truck_index < NumTrucks
    /\ LET truck == problem.trucks[truck_index]
       IN  trucks' = [ t \in 0 .. truck_index |->
                         IF t = truck_index
                         THEN initialize_truck(truck.capacity, truck.position,
                                               truck.freighter_id)
                         ELSE trucks[t] ]
    /\ truck_index' = truck_index + 1
    /\ UNCHANGED << problem, accepted, commitments, relocations, frame,
                    operations, orders, empty_drives, num_processed_orders,
                    num_added_orders, route_matrix, pc, order_index,
                    reveal_index, revealed, rounds, stalled_rounds,
                    evaluated, pass_start_trucks >>

\* solver.py 67-77: MPCSolver.__init__ on the shared problem, and the call
\* of solve_problem
ConstructSolver ==
    /\ pc = "prepare_mpc_data"
    /\ order_index = NumOrders
    /\ truck_index = NumTrucks
    /\ route_matrix' = RouteMatrix
    /\ empty_drives' = << >>
    /\ num_processed_orders' = 0
    /\ pass_start_trucks' = trucks
    /\ pc' = "while"
    /\ truck_index' = 0
    /\ order_index' = 0
    /\ UNCHANGED << problem, accepted, commitments, relocations, frame,
                    operations, trucks, orders, num_added_orders,
                    reveal_index, revealed, rounds, stalled_rounds,
                    evaluated >>

PrepareNext ==
    \/ UploadOrder
    \/ UploadTruck
    \/ ConstructSolver
    \/ EnterRound

PrepareSpec == PrepareInit /\ [][PrepareNext]_vars


(***************************************************************************)
(* Properties                                                              *)
(***************************************************************************)
LoopEnded == pc \in {"reveal_orders", "reveal_empty_drives", "done"}
InLoop == pc \in {"while", "fill", "check", "reset"}
AllProcessed == \A o \in OrderIndexes : orders[o].processed = 1
VolumesFit ==
    \A o \in OrderIndexes :
        0 <= orders[o].volume /\ orders[o].volume <= truck_capacity

\* C1 as stated: for any map, trucks and orders the round loop of
\* solve_problem ends, and when it has ended every order's processed flag
\* is 1.
C1_LoopTerminates == <>(LoopEnded /\ AllProcessed)

\* C1 amended: when every order volume is between 0 and the configured
\* truck capacity, the round loop ends: no step of solve_problem blocks
\* before it returns, the loop takes at most 2 * NumOrders rounds, each
\* round's two loops stay within their ranges, and once the loop has ended
\* every order's processed flag is 1.
C1_LoopTerminatesWhenVolumesFit ==
    VolumesFit =>
        /\ rounds <= 2 * NumOrders
        /\ truck_index \in 0 .. NumTrucks
        /\ order_index \in 0 .. NumOrders
        /\ reveal_index \in 0 .. (NumOrders + Len(empty_drives))
        /\ pc = "done" \/ ENABLED Next
        /\ LoopEnded => AllProcessed /\ num_processed_orders = NumOrders

\* a run with fitting volumes that needed the most rounds (every other
\* round stalled) and has returned
C1_Witness ==
    /\ VolumesFit
    /\ pc = "done"
    /\ AllProcessed
    /\ rounds = 2 * NumOrders
    /\ Len(empty_drives) = NumOrders

\* C2: in every reachable state, also between two calls of
\* _fill_truck_with_order and after repositionings, every truck's capacity
\* is at least 0.
C2_CapacityNeverNegative ==
    \A t \in TruckIndexes : trucks[t].capacity >= 0

\* inside a fill pass a truck has been filled to the brim by one order
\* and has then refused, for lack of room, an open order at its position
C2_Witness ==
    /\ pc = "fill"
    /\ truck_index < NumTrucks
    /\ trucks[truck_index].capacity = 0
    /\ \E o1, o2 \in OrderIndexes :
          /\ o1 < o2 /\ o2 < order_index
          /\ orders[o1].process_this_round = 1
          /\ orders[o1].freighter_id = trucks[truck_index].freighter_id
          /\ orders[o2].processed = 0
          /\ orders[o2].origin = trucks[truck_index].position
          /\ orders[o2].destination = trucks[truck_index].destination

\* C3: an order's freighter_id is the dummy freighter id whenever its
\* processed flag is 0, and no step changes the freighter_id of an order
\* whose processed flag is 1.
C3_FreighterAssignedOnce ==
    [][ \A o \in OrderIndexes :
          /\ orders[o].processed = 0 =>
                orders[o].freighter_id = dummy_freighter_id
          /\ orders'[o].processed = 0 =>
                orders'[o].freighter_id = dummy_freighter_id
          /\ orders[o].processed = 1 =>
                /\ orders'[o].freighter_id = orders[o].freighter_id
                /\ orders'[o].freighter_id # dummy_freighter_id ]_vars

\* an order assigned in an earlier round has been offered, in a later fill
\* pass, to a truck of another freighter standing at its origin with room
C3_Witness ==
    /\ pc = "fill"
    /\ \E o \in OrderIndexes :
          /\ order_index > o
          /\ orders[o].processed = 1
          /\ orders[o].process_this_round = 0
          /\ trucks[truck_index].position = orders[o].origin
          /\ trucks[truck_index].freighter_id # orders[o].freighter_id
          /\ trucks[truck_index].capacity >= orders[o].volume
          /\ trucks[truck_index].destination = dummy_node

\* what the final reveal may show to the owning party only
PrivateItems ==
    { "order.origin", "order.destination", "order.volume",
      "empty_drive.closest_position", "empty_drive.first_unprocessed_origin" }

\* C4: an order's origin, destination and volume and an empty drive's
\* closest_position and destination are never output to all parties; only
\* freighter ids are.
C4_PrivateFieldsToOwnerOnly ==
    \A r \in revealed :
        /\ r.item \in PrivateItems => r.receivers # "all"
        /\ r.receivers = "all" /\ LoopEnded =>
              r.item \in { "order.freighter_id", "empty_drive.freighter_id",
                           "num_added_orders" }

RangeOf(seq) == { seq[i] : i \in 1 .. Len(seq) }
CountOutputs == { r \in revealed : r.item = "num_added_orders" }

\* C5: while the round loop runs, nothing but round counts has been
\* revealed; a step of the loop that reveals something reveals exactly the
\* count of the current round, the sum of process_this_round, and it is
\* taken when _fill_truck_with_order has run for every (truck, order) pair
\* of the round and every truck has been finished; one count is revealed
\* per round.
C5_OnlyCountRevealedInLoop ==
    [][ InLoop =>
          /\ revealed = CountOutputs
          /\ rounds < MaxRounds =>
                Cardinality(revealed) = IF pc = "fill" THEN rounds - 1 ELSE rounds
          /\ revealed' # revealed =>
                /\ pc = "fill" /\ pc' = "check"
                /\ truck_index = NumTrucks
                /\ RangeOf(evaluated) = TruckIndexes \X OrderIndexes
                /\ Len(evaluated) = NumTrucks * NumOrders
                /\ \A t \in TruckIndexes :
                      /\ trucks[t].destination = dummy_node
                      /\ trucks[t].capacity = truck_capacity
                /\ revealed' = revealed \cup
                      { Output("num_added_orders", rounds, "all") }
                /\ num_added_orders' =
                      Cardinality({ o \in OrderIndexes :
                                      orders[o].process_this_round = 1 }) ]_vars

\* two rounds have revealed their counts and the loop is still running
C5_Witness ==
    /\ pc = "check"
    /\ rounds = 2
    /\ num_processed_orders < NumOrders
    /\ Cardinality(revealed) = 2

\* C6: whenever anything but a round count has been revealed (a field of
\* an order or of an empty drive), the round loop has ended, every order
\* is processed and num_processed_orders equals the number of orders.
C6_NoRevealBeforeAllProcessed ==
    (revealed # CountOutputs) =>
        /\ LoopEnded
        /\ AllProcessed
        /\ num_processed_orders = NumOrders

\* a finished run that went through an empty drive and revealed the
\* orders and the empty drive
C6_Witness ==
    /\ pc = "done"
    /\ Len(empty_drives) > 0
    /\ \E r \in revealed : r.item = "order.freighter_id"
    /\ \E r \in revealed : r.item = "empty_drive.freighter_id"

\* C7: at every round boundary the number of EmptyDrive records is the
\* number of stalled rounds; a step appends an EmptyDrive only in a round
\* whose revealed count is 0, and appends exactly one; the repositioning is
\* never skipped in such a round; after a repositioning the loop condition
\* still holds, so another fill pass follows; the loop is left only right
\* after a round with a positive count that brought num_processed_orders to
\* the number of orders.
C7_RepositionOncePerStalledRound ==
    [][ /\ pc \in {"while", "reset"} => Len(empty_drives) = stalled_rounds
        /\ empty_drives' # empty_drives =>
              /\ pc = "check" /\ num_added_orders = 0
              /\ Len(empty_drives') = Len(empty_drives) + 1
              /\ SubSeq(empty_drives', 1, Len(empty_drives)) = empty_drives
        /\ pc = "check" /\ pc' = "reset" /\ rounds < MaxRounds =>
              Len(empty_drives') =
                  Len(empty_drives) + (IF num_added_orders = 0 THEN 1 ELSE 0)
        /\ pc = "reset" /\ num_added_orders = 0 =>
              /\ num_processed_orders < NumOrders
              /\ num_processed_orders' < NumOrders
        /\ pc = "while" /\ pc' = "fill" =>
              trucks' = trucks /\ orders' = orders
        /\ pc = "while" /\ pc' = "reveal_orders" =>
              /\ num_added_orders > 0
              /\ num_processed_orders = NumOrders
              /\ evaluated # << >> ]_vars

\* at a round boundary, after stalled rounds and rounds with progress
C7_Witness ==
    /\ pc = "while"
    /\ stalled_rounds = 2
    /\ rounds = 3
    /\ Len(empty_drives) = 2
    /\ num_processed_orders = 1

\* the conditions C8 puts on a (truck, order) pair
C8_Pair(truck, order) ==
    /\ truck.position = order.origin
    /\ truck.destination = dummy_node \/ truck.destination = order.destination
    /\ truck.capacity - order.volume >= 0
    /\ order.processed = 0

\* C8: a call of _fill_truck_with_order on a pair that meets the four
\* conditions sets truck.destination to order.destination,
\* order.freighter_id to truck.freighter_id, order.processed and
\* order.process_this_round to 1, and lowers truck.capacity by order.volume.
C8_CompatiblePairIsFilled ==
    [][ pc = "fill" /\ truck_index < NumTrucks /\ order_index < NumOrders
        /\ C8_Pair(trucks[truck_index], orders[order_index]) =>
          /\ trucks'[truck_index].destination = orders[order_index].destination
          /\ orders'[order_index].freighter_id = trucks[truck_index].freighter_id
          /\ orders'[order_index].processed = 1
          /\ orders'[order_index].process_this_round = 1
          /\ trucks'[truck_index].capacity =
                trucks[truck_index].capacity - orders[order_index].volume ]_vars

\* the first truck of a pass has just taken a second order for the
\* destination it is committed to
C8_Witness ==
    /\ pc = "fill"
    /\ truck_index = 0
    /\ order_index = 2
    /\ \A o \in 0 .. 1 :
          /\ orders[o].process_this_round = 1
          /\ orders[o].freighter_id = trucks[0].freighter_id
          /\ orders[o].destination = trucks[0].destination
    /\ trucks[0].capacity = truck_capacity - orders[0].volume - orders[1].volume

\* C9: a call of _fill_truck_with_order on a pair that fails one of the
\* four conditions changes no truck and no order; and after any call of a
\* fill pass, a second call on the same pair would change neither
\* order.freighter_id nor truck.capacity.
C9_IncompatiblePairUntouched ==
    [][ pc = "fill" /\ truck_index < NumTrucks /\ order_index < NumOrders =>
          /\ ~ C8_Pair(trucks[truck_index], orders[order_index]) =>
                trucks' = trucks /\ orders' = orders
          /\ LET again == fill_truck_with_order(trucks'[truck_index],
                                                orders'[order_index])
             IN  /\ again.order.freighter_id = orders'[order_index].freighter_id
                 /\ again.truck.capacity = trucks'[truck_index].capacity ]_vars

\* a truck standing at an open order's origin, uncommitted, has just been
\* offered the order and has too little room for it: the order is still
\* unassigned
C9_Witness ==
    /\ pc = "fill"
    /\ truck_index < NumTrucks
    /\ order_index > 0
    /\ orders[order_index - 1].processed = 0
    /\ orders[order_index - 1].freighter_id = dummy_freighter_id
    /\ orders[order_index - 1].origin = trucks[truck_index].position
    /\ trucks[truck_index].destination = dummy_node
    /\ trucks[truck_index].capacity < orders[order_index - 1].volume
    /\ trucks[truck_index].capacity = pass_start_trucks[truck_index].capacity

\* the scenario of C10 in the first round, on the first truck and the
\* first order: the truck has capacity 10 and no destination and stands at
\* the origin of the order, whose volume is 4; every other truck and every
\* other order is at another node
C10_Scenario ==
    /\ rounds = 1
    /\ pass_start_trucks[0].capacity = 10
    /\ pass_start_trucks[0].destination = dummy_node
    /\ pass_start_trucks[0].position = orders[0].origin
    /\ orders[0].volume = 4
    /\ \A t \in TruckIndexes \ {0} :
          pass_start_trucks[t].position # orders[0].origin
    /\ \A o \in OrderIndexes \ {0} : orders[o].origin # orders[0].origin

\* C10 as stated: after one fill round the order is processed and assigned
\* to the truck's freighter, the truck's capacity is 6 and its destination
\* is the order's destination.
C10_AfterFillRound ==
    C10_Scenario /\ pc = "fill" /\ truck_index = NumTrucks =>
        /\ orders[0].processed = 1
        /\ orders[0].freighter_id = trucks[0].freighter_id
        /\ trucks[0].capacity = 6
        /\ trucks[0].destination = orders[0].destination

\* C10 amended: after the call of _fill_truck_with_order on the pair the
\* order is processed and assigned to the truck's freighter, the truck's
\* capacity is 6 and its destination is the order's destination, and this
\* lasts until the truck's pass ends; once the truck's pass has ended, and
\* so after the fill round, the order is still processed and assigned to the
\* truck's freighter, and the truck has the configured capacity, the dummy
\* destination, and the order's destination as its position.
C10_AfterCallAndAfterFillRound ==
    C10_Scenario /\ pc = "fill" /\ (truck_index > 0 \/ order_index > 0) =>
        /\ orders[0].processed = 1
        /\ orders[0].freighter_id = trucks[0].freighter_id
        /\ truck_index = 0 =>
              /\ trucks[0].capacity = 6
              /\ trucks[0].destination = orders[0].destination
              /\ trucks[0].position = orders[0].origin
        /\ truck_index > 0 =>
              /\ trucks[0].capacity = truck_capacity
              /\ trucks[0].destination = dummy_node
              /\ trucks[0].position = orders[0].destination

\* the fill round of the scenario has run to its end, the order going to
\* another node than its origin
C10_Witness ==
    /\ C10_Scenario
    /\ pc = "fill"
    /\ truck_index = NumTrucks
    /\ orders[0].destination # orders[0].origin
    /\ orders[0].processed = 1
    /\ trucks[0].position = orders[0].destination

\* the scenario of C11 in the first round, on the first truck and the
\* first order: the truck has capacity 10 and stands at the origin of the
\* order, whose volume is 11
C11_Scenario ==
    /\ rounds = 1
    /\ pass_start_trucks[0].capacity = 10
    /\ pass_start_trucks[0].position = orders[0].origin
    /\ orders[0].volume = 11

\* the EmptyDrive records made for a truck of freighter f
DrivesOf(f) == { i \in 1 .. Len(empty_drives) : empty_drives[i].freighter_id = f }

\* C11 as stated: in the scenario the order is unassigned and unprocessed
\* after the fill round, and after the repositioning step that follows a
\* round without assignment no EmptyDrive is recorded for this truck and
\* its position is the one it had.
C11_BigOrderTruckNotRepositioned ==
    C11_Scenario /\ pc \in {"check", "reset"} =>
        /\ orders[0].freighter_id = dummy_freighter_id
        /\ orders[0].processed = 0
        /\ pc = "reset" /\ num_added_orders = 0 =>
              /\ DrivesOf(trucks[0].freighter_id) = {}
              /\ trucks[0].position = pass_start_trucks[0].position

(***************************************************************************)
(* The vector functions (under VectorSpec).                                *)
(***************************************************************************)
Returned(function) == frame.function = function /\ frame.returned

\* C12: for all bits a and b, real_or(a, b) is 0 or 1, it is 1 exactly when
\* at least one of a and b is 1, and it is 0 exactly for (0, 0).
C12_RealOrIsBooleanOr ==
    Returned("real_or") =>
        LET a == frame.args[1]
            b == frame.args[2]
            result == frame.list[1]
        IN  /\ result \in {0, 1}
            /\ result = 1 <=> (a = 1 \/ b = 1)
            /\ result = 0 <=> (a = 0 /\ b = 0)

\* real_or has returned 1 for (1, 1), where the native OR gives 3
C12_Witness ==
    /\ Returned("real_or")
    /\ frame.args = << 1, 1 >>
    /\ frame.list = << 1 >>

\* C13: for every length >= 1 and every index with 0 <= index < length,
\* compute_indicator_vector(length, index) has exactly length entries, the
\* entry at position index is 1 and every other entry is 0.
C13_IndicatorVectorIsUnitVector ==
    Returned("compute_indicator_vector") =>
        LET length == frame.args[1]
            index == frame.args[2]
        IN  length >= 1 /\ 0 <= index /\ index < length =>
              /\ Len(frame.list) = length
              /\ \A p \in 0 .. (length - 1) :
                    frame.list[p + 1] = IF p = index THEN 1 ELSE 0
              /\ AsVector(frame.list) = compute_indicator_vector(length, index)

\* the call for the longest vector and its last position has returned
C13_Witness ==
    /\ Returned("compute_indicator_vector")
    /\ frame.args = << MaxLength, MaxLength - 1 >>
    /\ frame.list[MaxLength] = 1
    /\ frame.list[1] = 0

\* C14: for every non-empty 0/1 list v, find_first_non_zero(v) is a 0/1
\* list as long as v with at most one 1, which is at the lowest position
\* where v is not 0; it is all 0 exactly when v is all 0; and the loop has
\* been at every position of v, wherever the first nonzero entry is.
C14_FirstNonZeroMask ==
    Returned("find_first_non_zero") =>
        LET v == frame.args
            n == Len(v)
            mask == frame.list
        IN  /\ Len(mask) = n
            /\ \A p \in 1 .. n : mask[p] \in Bits
            /\ Cardinality({ p \in 1 .. n : mask[p] = 1 }) <= 1
            /\ \A p \in 1 .. n :
                  mask[p] = 1 <=>
                      (v[p] # 0 /\ \A q \in 1 .. (p - 1) : v[q] = 0)
            /\ (\A p \in 1 .. n : mask[p] = 0) <=> (\A p \in 1 .. n : v[p] = 0)
            /\ frame.visited = 0 .. (n - 1)
            /\ AsVector(mask) = find_first_non_zero(AsVector(v), n)

\* the call has returned for a list of the greatest length that starts
\* with 0 and has two entries 1, the mask being 1 at the first of them only
C14_Witness ==
    /\ Returned("find_first_non_zero")
    /\ Len(frame.args) = MaxLength
    /\ frame.args[1] = 0
    /\ \E p \in 2 .. MaxLength : \E q \in (p + 1) .. MaxLength :
          /\ frame.args[p] = 1
          /\ frame.args[q] = 1
          /\ \A r \in 1 .. (p - 1) : frame.args[r] = 0
          /\ frame.list[p] = 1
          /\ frame.list[q] = 0
    /\ frame.visited = 0 .. (MaxLength - 1)

(***************************************************************************)
(* The order of the operations (under Spec).                               *)
(***************************************************************************)
RECURSIVE AddedUpTo(_)
\* the sum of the counts revealed by the first k operations
AddedUpTo(k) ==
    IF k = 0 THEN 0
    ELSE AddedUpTo(k - 1)
           + IF operations[k].op = "output num_added_orders"
             THEN operations[k].value ELSE 0

\* the number of repositionings among the first k operations
DrivesUpTo(k) ==
    Cardinality({ i \in 1 .. k : operations[i].op = "_create_empty_truck_drive" })

\* the round of the last _fill_trucks among the first k operations
RoundUpTo(k) ==
    Cardinality({ i \in 1 .. k : operations[i].op = "_fill_trucks" })

\* the operation that follows operations[k], from the list sizes and the
\* counts revealed by then alone ("return" when none follows)
Following(k) ==
    LET last == operations[k] IN
    CASE last.op = "_fill_trucks" ->
           Operation("output num_added_orders", 0)
      [] last.op = "output num_added_orders" ->
           IF last.value = 0 THEN Operation("_create_empty_truck_drive", 0)
           ELSE IF AddedUpTo(k) < NumOrders
                THEN Operation("_fill_trucks", RoundUpTo(k) + 1)
                ELSE Operation("output order", 0)
      [] last.op = "_create_empty_truck_drive" ->
           Operation("_fill_trucks", RoundUpTo(k) + 1)
      [] last.op = "output order" ->
           IF last.value + 1 < NumOrders
           THEN Operation("output order", last.value + 1)
           ELSE IF DrivesUpTo(k) > 0
                THEN Operation("output empty_drive", 0)
                ELSE Operation("return", 0)
      [] last.op = "output empty_drive" ->
           IF last.value + 1 < DrivesUpTo(k)
           THEN Operation("output empty_drive", last.value + 1)
           ELSE Operation("return", 0)

\* the same operation, the count revealed left aside
SameOperation(a, b) ==
    /\ a.op = b.op
    /\ a.op # "output num_added_orders" => a.value = b.value

\* the (truck, order) pairs in the order of the two loops of _fill_trucks
PairAt(i) == << (i - 1) \div NumOrders, (i - 1) % NumOrders >>

\* the operations of the run in which every order is accepted in the first
\* round: one fill pass, one count, the reveal of the orders
OneRoundOperations ==
    << Operation("_fill_trucks", 1), Operation("output num_added_orders", 0) >>
      \o [ i \in 1 .. NumOrders |-> Operation("output order", i - 1) ]

\* the run of OneRoundOperations has returned
OneRoundRun ==
    /\ pc = "done"
    /\ Len(operations) = Len(OneRoundOperations)
    /\ \A k \in 1 .. Len(operations) :
          SameOperation(operations[k], OneRoundOperations[k])

\* C15 as stated: the operations of a run do not depend on the secrets, so
\* the operations of every run are those, in the same order, of the run
\* in which every order is accepted in the first round (OneRoundRun): the
\* same pairs, no repositioning, one round, the same reveals.
C15_OperationsIndependentOfSecrets ==
    /\ Len(operations) <= Len(OneRoundOperations)
    /\ \A k \in 1 .. Len(operations) :
          k <= Len(OneRoundOperations) =>
              SameOperation(operations[k], OneRoundOperations[k])
    /\ \A i \in 1 .. Len(evaluated) : evaluated[i] = PairAt(i)

\* C15 amended: the operations of a run follow from the list sizes and the
\* counts revealed so far: each fill pass evaluates the pairs in the order
\* of the two loops; the count is revealed after each fill pass; the
\* repositioning runs exactly after a count of 0; another round follows
\* exactly while the counts add up to less than the number of orders; then
\* the orders are revealed in list order and then one empty drive for each
\* count of 0.
C15_OperationsFollowFromCounts ==
    /\ Len(operations) > 0 => operations[1] = Operation("_fill_trucks", 1)
    /\ \A k \in 1 .. (Len(operations) - 1) :
          SameOperation(operations[k + 1], Following(k))
    /\ pc = "done" => Following(Len(operations)) = Operation("return", 0)
    /\ \A i \in 1 .. Len(evaluated) : evaluated[i] = PairAt(i)
    /\ pc = "fill" => Len(evaluated) = truck_index * NumOrders + order_index
    /\ pc \in {"check", "reset"} => Len(evaluated) = NumTrucks * NumOrders

\* a run has returned after a round that assigned nothing, a repositioning
\* and a later round that assigned an order
C15_Witness ==
    /\ pc = "done"
    /\ \E k \in 1 .. (Len(operations) - 3) :
          /\ operations[k] = Operation("output num_added_orders", 0)
          /\ operations[k + 1].op = "_create_empty_truck_drive"
          /\ operations[k + 2].op = "_fill_trucks"
          /\ operations[k + 3].op = "output num_added_orders"
          /\ operations[k + 3].value > 0

(***************************************************************************)
(* The configuration (under PrepareSpec).                                  *)
(***************************************************************************)
\* the dummy node is the id of a node of the problem
DummyNodeIsReal ==
    \/ \E t \in TruckIndexes : problem.trucks[t].position = dummy_node
    \/ \E o \in OrderIndexes :
          \/ problem.orders[o].origin = dummy_node
          \/ problem.orders[o].destination = dummy_node

\* the dummy freighter id is the id of a freighter of the problem
DummyFreighterIsReal ==
    \E t \in TruckIndexes : problem.trucks[t].freighter_id = dummy_freighter_id

\* some input value is outside the secret integers
BitLengthTooSmall ==
    \/ \E t \in TruckIndexes :
          \/ ~ Fits(problem.trucks[t].capacity)
          \/ ~ Fits(problem.trucks[t].position)
          \/ ~ Fits(problem.trucks[t].freighter_id)
    \/ \E o \in OrderIndexes :
          \/ ~ Fits(problem.orders[o].origin)
          \/ ~ Fits(problem.orders[o].destination)
          \/ ~ Fits(problem.orders[o].volume)

\* C16: when the dummy node is a real node id, or the dummy freighter id is
\* a real freighter id, or the bit width is too small for an input value,
\* no order and no truck is ever shared and no round is ever entered.
C16_BadConfigurationRejected ==
    DummyNodeIsReal \/ DummyFreighterIsReal \/ BitLengthTooSmall =>
        /\ DOMAIN orders = {}
        /\ DOMAIN trucks = {}
        /\ rounds = 0

(***************************************************************************)
(* The fill pass of one truck (under Spec).                                *)
(***************************************************************************)
RECURSIVE VolumeOf(_, _)
\* the volume of the first n orders of a sequence of order indexes
VolumeOf(indexes, n) ==
    IF n = 0 THEN 0
    ELSE VolumeOf(indexes, n - 1) + orders[indexes[n]].volume

\* the round is at or after its fill pass
InRound == pc \in {"fill", "check", "reset"}

\* C17: in one fill pass every order a truck accepts has the origin at
\* which the truck stood when the pass began and the destination of the
\* first order the truck accepted, each accepted order fits the capacity
\* the earlier ones left, the accepted volume is at most the capacity the
\* truck had when the pass began, and while its pass runs the truck's
\* destination is that one destination (the dummy node before the first
\* acceptance).
C17_OneDestinationPerPass ==
    InRound =>
      \A t \in TruckIndexes :
        LET mine == accepted[t]
            start == pass_start_trucks[t]
        IN  /\ \A i \in 1 .. Len(mine) :
                  /\ orders[mine[i]].origin = start.position
                  /\ orders[mine[i]].destination = orders[mine[1]].destination
                  /\ orders[mine[i]].volume
                        <= start.capacity - VolumeOf(mine, i - 1)
            /\ VolumeOf(mine, Len(mine)) <= start.capacity
            /\ pc = "fill" /\ truck_index = t =>
                  /\ trucks[t].position = start.position
                  /\ trucks[t].capacity
                        = start.capacity - VolumeOf(mine, Len(mine))
                  /\ trucks[t].destination =
                        IF mine = << >> THEN dummy_node
                        ELSE orders[mine[1]].destination

\* a fill pass is over in which a truck has accepted two orders
C17_Witness ==
    /\ pc = "check"
    /\ \E t \in TruckIndexes :
          /\ Len(accepted[t]) >= 2
          /\ orders[accepted[t][1]].freighter_id = trucks[t].freighter_id
          /\ orders[accepted[t][2]].freighter_id = trucks[t].freighter_id

\* C18: at every round boundary the number of EmptyDrive records plus the
\* number of destinations committed by trucks in their fill passes is the
\* number of relocations so far: the assignments of a committed destination
\* to a truck's position at the end of its fill pass and the assignments
\* of an order's origin to a truck's position by an empty drive.
C18_DrivesPlusCommitmentsAreRelocations ==
    ~ InRound => Len(empty_drives) + commitments = relocations

\* a round boundary after an empty drive and a pass in which a truck
\* committed one destination for two orders
C18_Witness ==
    /\ pc = "while"
    /\ Len(empty_drives) >= 1
    /\ commitments >= 1
    /\ num_processed_orders > commitments
    /\ relocations = Len(empty_drives) + commitments

\* how often the pair (t, o) was evaluated in this round
TimesEvaluated(t, o) ==
    Cardinality({ i \in 1 .. Len(evaluated) : evaluated[i] = << t, o >> })

\* the truck as its finished pass leaves it: full capacity, no destination,
\* and at the destination of the orders it accepted, if it accepted any
AfterPass(t) ==
    [ pass_start_trucks[t] EXCEPT
        !.capacity = truck_capacity,
        !.destination = dummy_node,
        !.position = IF accepted[t] = << >> THEN @
                     ELSE orders[accepted[t][1]].destination ]

\* C19: in every round the pairs are evaluated in the order of the two
\* loops, trucks in list order and for each truck the orders in list
\* order, none skipped and none twice; when an order of a truck is
\* evaluated every earlier truck has had its capacity reset, its position
\* advanced and its destination reset, and no later truck has been
\* touched; and the fill pass ends only when every pair has been evaluated
\* exactly once.
C19_EveryPairOncePerRound ==
    InRound =>
        /\ \A i \in 1 .. Len(evaluated) : evaluated[i] = PairAt(i)
        /\ pc = "fill" =>
              /\ Len(evaluated) = truck_index * NumOrders + order_index
              /\ \A t \in TruckIndexes :
                    /\ t < truck_index => trucks[t] = AfterPass(t)
                    /\ t > truck_index => trucks[t] = pass_start_trucks[t]
        /\ pc \in {"check", "reset"} =>
              \A t \in TruckIndexes : \A o \in OrderIndexes :
                  TimesEvaluated(t, o) = 1

\* the fill pass has ended after the first truck accepted the first order:
\* its later orders and the later trucks were evaluated all the same
C19_Witness ==
    /\ pc = "check"
    /\ Len(accepted[0]) >= 1
    /\ accepted[0][1] = 0
    /\ Len(evaluated) = NumTrucks * NumOrders
    /\ evaluated[Len(evaluated)] = << NumTrucks - 1, NumOrders - 1 >>

\* _fill_trucks has returned and the repositioning has not run
FillTrucksReturned ==
    \/ pc = "fill" /\ truck_index = NumTrucks
    \/ pc = "check"

\* C20: after fill_trucks returns every truck has the configured truck
\* capacity and the dummy node as destination; a truck that accepted an
\* order in this pass stands at the destination it committed, a truck that
\* accepted none stands where it stood before the pass.
C20_TrucksAfterFillTrucks ==
    FillTrucksReturned =>
        \A t \in TruckIndexes :
            /\ trucks[t].capacity = truck_capacity
            /\ trucks[t].destination = dummy_node
            /\ accepted[t] # << >> =>
                  /\ trucks[t].position = orders[accepted[t][1]].destination
                  /\ \A i \in 1 .. Len(accepted[t]) :
                        trucks[t].position = orders[accepted[t][i]].destination
            /\ accepted[t] = << >> =>
                  trucks[t].position = pass_start_trucks[t].position

\* fill_trucks has returned; one truck began with less than the configured
\* capacity, accepted an order and stands at another node than before, and
\* another truck accepted none
C20_Witness ==
    /\ pc = "check"
    /\ \E t \in TruckIndexes :
          /\ accepted[t] # << >>
          /\ pass_start_trucks[t].capacity < truck_capacity
          /\ trucks[t].position # pass_start_trucks[t].position
    /\ \E t \in TruckIndexes : accepted[t] = << >>

(***************************************************************************)
(* The Repositioning Engine (under Spec).                                  *)
(***************************************************************************)
\* some order is unprocessed
SomeUnprocessed == \E o \in OrderIndexes : orders[o].processed = 0

\* the lowest index of an unprocessed order
FirstUnprocessed ==
    CHOOSE o \in OrderIndexes :
        /\ orders[o].processed = 0
        /\ \A q \in OrderIndexes : q < o => orders[q].processed # 0

\* the vector over the map positions that is 1 exactly at a node
OneHot(node) == [ n \in 0 .. (NumNodes - 1) |-> IF n = node THEN 1 ELSE 0 ]

\* the step is a repositioning
Repositioning == pc = "check" /\ pc' = "reset" /\ num_added_orders = 0

\* C21: when some order is unprocessed, locate_first_unprocessed_origin
\* returns the origin of the unprocessed order of lowest index and the
\* one-hot vector of that origin over the map positions; the repositioning
\* that calls it records that origin as its target and leaves every field
\* of every order, and every truck's capacity, destination and freighter_id
\* as they were.
C21_LocatesFirstUnprocessedOrigin ==
    [][ SomeUnprocessed =>
          LET located == locate_first_unprocessed_origin(orders)
              origin == orders[FirstUnprocessed].origin
          IN  /\ located[1] = origin
              /\ located[2] = OneHot(origin)
              /\ Repositioning =>
                    /\ orders' = orders
                    /\ \A t \in TruckIndexes :
                          /\ trucks'[t].capacity = trucks[t].capacity
                          /\ trucks'[t].destination = trucks[t].destination
                          /\ trucks'[t].freighter_id = trucks[t].freighter_id
                    /\ rounds < MaxRounds =>
                          empty_drives'[Len(empty_drives')]
                              .first_unprocessed_origin = origin ]_vars

\* a repositioning has run whose target is the origin, other than node 0,
\* of an order that is not the first of the list, the first being processed
C21_Witness ==
    /\ pc = "reset"
    /\ num_added_orders = 0
    /\ rounds < MaxRounds
    /\ orders[0].processed = 1
    /\ SomeUnprocessed
    /\ orders[FirstUnprocessed].origin # 0
    /\ empty_drives[Len(empty_drives)].first_unprocessed_origin
          = orders[FirstUnprocessed].origin

\* C22: where the Repositioning Engine can be called (the count of the
\* round is revealed), for every truck, standing at a node p of the map,
\* and every target node of the map, not only the located one, given as a
\* one-hot vector, find_truck_dist_to_order yields the
\* route-matrix entry of row p and column target, and
\* find_distances_to_order stores it in the truck's dist_to_order and
\* changes no other field; after a repositioning every truck's
\* dist_to_order is the entry of the row of the position it had and the
\* column of the target.
C22_DistanceIsRouteMatrixEntry ==
    [][ /\ (/\ pc = "check"
            /\ \A t \in TruckIndexes : trucks[t].position \in Positions) =>
              \A target \in Positions :
                  find_distances_to_order(trucks, OneHot(target), route_matrix)
                      = [ t \in TruckIndexes |->
                            [ trucks[t] EXCEPT !.dist_to_order =
                                route_matrix[trucks[t].position][target] ] ]
        /\ Repositioning =>
              \A t \in TruckIndexes :
                  trucks'[t].dist_to_order =
                      route_matrix[trucks[t].position]
                                  [orders[FirstUnprocessed].origin] ]_vars

\* a repositioning has moved a truck from node 1 to node 0, its distance
\* being the entry of row 1 and column 0, which is not that of row 0 and
\* column 1
C22_Witness ==
    /\ pc = "reset"
    /\ num_added_orders = 0
    /\ rounds < MaxRounds
    /\ empty_drives[Len(empty_drives)].closest_position = 1
    /\ empty_drives[Len(empty_drives)].first_unprocessed_origin = 0
    /\ \E t \in TruckIndexes :
          /\ trucks[t].position = 0
          /\ trucks[t].dist_to_order = route_matrix[1][0]
    /\ route_matrix[1][0] # route_matrix[0][1]

\* the distance of truck t to the origin of the first unprocessed order
DistanceToFirstUnprocessed(t) ==
    route_matrix[trucks[t].position][orders[FirstUnprocessed].origin]

\* the lowest index among the trucks whose distance is minimal
ClosestTruck ==
    CHOOSE m \in TruckIndexes :
        /\ \A t \in TruckIndexes :
              DistanceToFirstUnprocessed(m) <= DistanceToFirstUnprocessed(t)
        /\ \A t \in TruckIndexes :
              DistanceToFirstUnprocessed(t) = DistanceToFirstUnprocessed(m)
                  => m <= t

\* C23: in every repositioning the truck that is moved is one whose
\* distance to the origin of the first unprocessed order is minimal over
\* all trucks, and among the trucks tied at that distance the one with the
\* lowest index: it is the truck selected, it stands at the origin
\* afterwards, and every other truck stands where it stood.
C23_ClosestTruckLowestIndexIsMoved ==
    [][ Repositioning =>
          /\ create_empty_truck_drive(trucks, orders, route_matrix)
                .closest_truck_index = ClosestTruck
          /\ trucks'[ClosestTruck].position = orders[FirstUnprocessed].origin
          /\ \A t \in TruckIndexes \ {ClosestTruck} :
                trucks'[t].position = trucks[t].position ]_vars

\* a repositioning has moved truck 0 while truck 1, which stood at the same
\* node away from the origin, stayed behind
C23_Witness ==
    /\ pc = "reset"
    /\ num_added_orders = 0
    /\ rounds < MaxRounds
    /\ trucks[0].position
          = empty_drives[Len(empty_drives)].first_unprocessed_origin
    /\ trucks[1].position = empty_drives[Len(empty_drives)].closest_position
    /\ trucks[1].position # trucks[0].position

\* C24: each repositioning appends exactly one EmptyDrive, whose
\* freighter_id is that of the selected truck, whose closest_position is
\* that truck's position before the move and whose destination is the origin
\* of the first unprocessed order; for every truck index i,
\* find_freighter_id(i) and find_truck_position(i) are trucks[i].freighter_id
\* and trucks[i].position; the records appended earlier are never changed
\* or removed, and nothing but a repositioning appends one.  (A round past
\* MaxRounds is no longer recorded.)
C24_OneEmptyDrivePerRepositioning ==
    [][ /\ \A i \in TruckIndexes :
              /\ find_freighter_id(trucks, i) = trucks[i].freighter_id
              /\ find_truck_position(trucks, i) = trucks[i].position
        /\ Len(empty_drives') >= Len(empty_drives)
        /\ SubSeq(empty_drives', 1, Len(empty_drives)) = empty_drives
        /\ (Repositioning /\ rounds < MaxRounds) =>
              /\ Len(empty_drives') = Len(empty_drives) + 1
              /\ empty_drives'[Len(empty_drives')] =
                    [ freighter_id |-> trucks[ClosestTruck].freighter_id,
                      closest_position |-> trucks[ClosestTruck].position,
                      first_unprocessed_origin |->
                          orders[FirstUnprocessed].origin ]
        /\ ~ Repositioning => empty_drives' = empty_drives ]_vars

\* two repositionings are recorded, the second for the last truck, and the
\* first record is that of another freighter
C24_Witness ==
    /\ Len(empty_drives) >= 2
    /\ empty_drives[Len(empty_drives)].freighter_id
          = trucks[NumTrucks - 1].freighter_id
    /\ empty_drives[Len(empty_drives)].first_unprocessed_origin
          = trucks[NumTrucks - 1].position
    /\ empty_drives[1].freighter_id # trucks[NumTrucks - 1].freighter_id
    /\ pc = "reset"
    /\ num_added_orders = 0

\* C25: move_truck(i, p), for every truck index i and node p, sets the
\* position of truck i to p and leaves every other truck and every other
\* field as they are; a repositioning sets the position of exactly the
\* selected truck to the origin of the first unprocessed order and leaves
\* unchanged the position of every other truck, every truck's capacity,
\* destination and freighter_id, and every field of every order.
C25_OnlySelectedTruckMoves ==
    [][ /\ \A i \in TruckIndexes : \A p \in Positions :
              move_truck(trucks, i, p) =
                  [ t \in TruckIndexes |->
                      IF t = i THEN [ trucks[t] EXCEPT !.position = p ]
                      ELSE trucks[t] ]
        /\ Repositioning =>
              LET selected ==
                      create_empty_truck_drive(trucks, orders, route_matrix)
                          .closest_truck_index
              IN  /\ selected \in TruckIndexes
                  /\ \A t \in TruckIndexes :
                        /\ trucks'[t].position =
                              IF t = selected
                              THEN orders[FirstUnprocessed].origin
                              ELSE trucks[t].position
                        /\ trucks'[t].capacity = trucks[t].capacity
                        /\ trucks'[t].destination = trucks[t].destination
                        /\ trucks'[t].freighter_id = trucks[t].freighter_id
                  /\ orders' = orders ]_vars

\* the first repositioning of a run has moved a truck to another node while
\* an earlier order stays processed and the other trucks stand elsewhere
C25_Witness ==
    /\ pc = "reset"
    /\ num_added_orders = 0
    /\ Len(empty_drives) = 1
    /\ empty_drives[1].closest_position
          # empty_drives[1].first_unprocessed_origin
    /\ \E o \in OrderIndexes : orders[o].processed = 1
    /\ Cardinality({ t \in TruckIndexes :
          trucks[t].position = empty_drives[1].first_unprocessed_origin }) = 1

-----------------------------------------------------------------------------
\* The flags and the counts of the rounds (under Spec)

\* C26: every order's processed and process_this_round flags and the
\* compatible flag of every truck and order are 0 or 1, and a processed
\* flag that is 1 stays 1.
C26_FlagsAreBitsAndProcessedStays ==
    [][ /\ \A o \in OrderIndexes :
              /\ orders[o].processed \in {0, 1}
              /\ orders[o].process_this_round \in {0, 1}
              /\ orders[o].processed = 1 => orders'[o].processed = 1
        /\ \A t \in TruckIndexes : \A o \in OrderIndexes :
              compatible(trucks[t], orders[o]) \in {0, 1} ]_vars

\* in the middle of a fill pass an order processed in an earlier round is
\* evaluated again while another order is compatible with the current truck
C26_Witness ==
    /\ pc = "fill"
    /\ truck_index < NumTrucks
    /\ order_index < NumOrders
    /\ orders[order_index].processed = 1
    /\ orders[order_index].process_this_round = 0
    /\ \E o \in OrderIndexes : compatible(trucks[truck_index], orders[o]) = 1

\* the orders whose processed flag is 1
Processed == { o \in OrderIndexes : orders[o].processed = 1 }

\* the orders accepted by truck t in the fill pass of this round
AcceptedBy(t) == { accepted[t][k] : k \in 1 .. Len(accepted[t]) }

\* the orders accepted in the fill pass of this round
AcceptedThisRound == UNION { AcceptedBy(t) : t \in TruckIndexes }

\* the number of acceptances of the fill pass of this round
Acceptances == SumTo([t \in TruckIndexes |-> Len(accepted[t])], NumTrucks)

\* C27: at the start of every round every process_this_round is 0 and
\* num_processed_orders is the number of orders whose processed flag is 1;
\* the count revealed in a round is the number of orders whose processed
\* flag went from 0 to 1 in the fill pass of that round, each of them
\* counted once; num_processed_orders never exceeds the number of orders.
C27_CountsMatchProcessedFlags ==
    /\ num_processed_orders <= NumOrders
    /\ pc = "while" =>
          /\ \A o \in OrderIndexes : orders[o].process_this_round = 0
          /\ num_processed_orders = Cardinality(Processed)
    /\ pc \in {"check", "reset"} =>
          /\ num_added_orders = Cardinality(AcceptedThisRound)
          /\ num_added_orders = Acceptances
          /\ num_added_orders = Cardinality(Processed) - num_processed_orders
          /\ AcceptedThisRound
                = { o \in OrderIndexes : orders[o].process_this_round = 1 }
          /\ AcceptedThisRound \subseteq Processed

\* the count of a second productive round is revealed: one order was
\* processed before it and one more in its fill pass
C27_Witness ==
    /\ pc = "check"
    /\ num_processed_orders >= 1
    /\ num_added_orders >= 1
    /\ Cardinality(Processed) = num_processed_orders + num_added_orders

\* the counts revealed so far, one per round, in the order of the rounds
RevealedCounts ==
    LET IsCount(entry) == entry.op = "output num_added_orders"
        counts == SelectSeq(operations, IsCount)
    IN  [ k \in 1 .. Len(counts) |-> counts[k].value ]

\* the round whose count has just been revealed follows a stalled round
AfterStalledRound ==
    /\ pc \in {"check", "reset"}
    /\ Len(RevealedCounts) >= 2
    /\ RevealedCounts[Len(RevealedCounts) - 1] = 0

\* the order that was the first unprocessed one when this round began
FirstOpenAtRoundStart ==
    CHOOSE o \in OrderIndexes :
        /\ orders[o].processed = 0 \/ orders[o].process_this_round = 1
        /\ \A q \in OrderIndexes :
              q < o => (orders[q].processed = 1
                        /\ orders[q].process_this_round = 0)

\* C28: with at least one truck, every order volume between 0 and the
\* configured truck capacity, origins and positions nodes of the map and
\* the dummy node not one of them, a stalled round is followed by a round
\* whose revealed count is at least 1, in which the truck moved by the
\* empty drive has accepted the order that was the first unprocessed one;
\* no two rounds in a row stall, and the loop takes at most 2 * NumOrders
\* rounds.
C28_StalledRoundIsFollowedByProgress ==
    (/\ NumTrucks >= 1
     /\ VolumesFit
     /\ dummy_node \notin Positions
     /\ \A o \in OrderIndexes : orders[o].origin \in Positions
     /\ \A t \in TruckIndexes : trucks[t].position \in Positions) =>
        /\ rounds <= 2 * NumOrders
        /\ Len(RevealedCounts) = (IF pc = "fill" THEN rounds - 1 ELSE rounds)
        /\ \A k \in 1 .. (Len(RevealedCounts) - 1) :
              RevealedCounts[k] = 0 => RevealedCounts[k + 1] >= 1
        /\ AfterStalledRound =>
              /\ num_added_orders >= 1
              /\ \E m \in TruckIndexes :
                    /\ FirstOpenAtRoundStart \in AcceptedBy(m)
                    /\ trucks[m].freighter_id
                          = empty_drives[Len(empty_drives)].freighter_id
                    /\ orders[FirstOpenAtRoundStart].freighter_id
                          = trucks[m].freighter_id

\* after a productive and a stalled round, the next round has accepted the
\* first open order on the truck that the empty drive had brought from
\* another node
C28_Witness ==
    /\ VolumesFit
    /\ AfterStalledRound
    /\ num_added_orders >= 1
    /\ empty_drives[Len(empty_drives)].closest_position
          # empty_drives[Len(empty_drives)].first_unprocessed_origin
    /\ FirstOpenAtRoundStart > 0

\* the Repositioning Engine is about to be invoked
EngineInvoked == pc = "check" /\ num_added_orders = 0

\* C29: whenever the Repositioning Engine is invoked, at least one order
\* has processed = 0, the first-nonzero mask over 1 - processed holds
\* exactly one 1, at the first unprocessed order, and the origin located is
\* the origin of that order.
C29_EngineFindsAnUnprocessedOrder ==
    EngineInvoked =>
        LET mask == find_first_non_zero(
                        [o \in OrderIndexes |-> 1 - orders[o].processed],
                        NumOrders)
        IN  /\ SomeUnprocessed
            /\ SumTo(mask, NumOrders) = 1
            /\ \A o \in OrderIndexes : mask[o] \in {0, 1}
            /\ mask[FirstUnprocessed] = 1
            /\ locate_first_unprocessed_origin(orders)[1]
                  = orders[FirstUnprocessed].origin

\* the engine is invoked when the first order is processed and the first
\* unprocessed one lies at a node other than node 0
C29_Witness ==
    /\ EngineInvoked
    /\ orders[0].processed = 1
    /\ SomeUnprocessed
    /\ orders[FirstUnprocessed].origin # 0

\* C30: given that the initial truck positions, the order origins and the
\* order destinations are nodes of the map and the dummy node is not one,
\* every truck's position is a node of the map and never the dummy node,
\* and a position is only ever replaced by the truck's committed
\* destination, which is not the dummy node, or by the origin of the first
\* unprocessed order in a repositioning.
C30_PositionIsAlwaysARealNode ==
    [][ (/\ dummy_node \notin Positions
         /\ \A o \in OrderIndexes :
               orders[o].origin \in Positions
               /\ orders[o].destination \in Positions) =>
            \A t \in TruckIndexes :
                /\ trucks[t].position \in Positions
                /\ trucks[t].position # dummy_node
                /\ trucks'[t].position \in Positions
                /\ trucks'[t].position # trucks[t].position =>
                      \/ /\ pc = "fill"
                         /\ t = truck_index
                         /\ trucks[t].destination # dummy_node
                         /\ trucks'[t].position = trucks[t].destination
                      \/ /\ Repositioning
                         /\ SomeUnprocessed
                         /\ trucks'[t].position
                               = orders[FirstUnprocessed].origin ]_vars

\* in a fill pass that follows a repositioning a truck has left its node
\* for its committed destination, and an uncommitted truck comes next
C30_Witness ==
    /\ pc = "fill"
    /\ Len(empty_drives) >= 1
    /\ truck_index \in TruckIndexes
    /\ trucks[truck_index].destination = dummy_node
    /\ \E t \in TruckIndexes :
          /\ t < truck_index
          /\ trucks[t].position # pass_start_trucks[t].position
          /\ trucks[t].position \in Positions

=============================================================================
